---- MODULE Spec2Model ----
(***************************************************************************)
(* Docker Port Manager: the three port handlers of backend/server.js       *)
(* (GET /api/ports, GET /api/ports/:port/check, GET /api/ports/random)     *)
(* against a container runtime.  One request is in flight at a time; each  *)
(* await of a handler is one step.  Strings the code parses or rewrites    *)
(* are sequences of one-character strings.                                 *)
(***************************************************************************)
EXTENDS Integers, Sequences, FiniteSets, TLC

(* ------------------------------ bounds --------------------------------- *)

\* Most containers the runtime enumerates at once.
MaxContainers == 2

\* Upper end of the random range; 9999 in the source (server.js:157),
\* scaled down so that a saturated range is a reachable runtime state.
RangeHigh == 3002

\* Attempt budget of the random loop; 100 in the source (server.js:154),
\* scaled down with the range.
maxAttempts == 3

\* Most changes of the runtime while one request is handled.
MaxChanges == 2

(* ------------------------- program constants --------------------------- *)

RangeLow == 3000
MinPort == 1
MaxPort == 65535
IdDisplayLen == 12

(* --------------------------- JavaScript values ------------------------- *)

\* The number NaN; every comparison below treats it as JavaScript does.
NaN == 0 - 1000000

\* What JSON.stringify writes for NaN.
JSONNull == 0 - 1000001

Null == [tag |-> "null"]
Undefined == [tag |-> "undefined"]

Truthy(v) == v.tag \notin {"null", "undefined"}

\* x === y on numbers: NaN is equal to nothing.
StrictEquals(x, y) == x # NaN /\ y # NaN /\ x = y

isNaN(x) == x = NaN

\* A number as res.json serialises it.
JSONNumber(x) == IF x = NaN THEN JSONNull ELSE x

Min(a, b) == IF a < b THEN a ELSE b

(* ------------------------------ strings -------------------------------- *)

DecDigits == <<"0", "1", "2", "3", "4", "5", "6", "7", "8", "9">>
LowerDigits == DecDigits \o <<"a", "b", "c", "d", "e", "f">>
UpperDigits == DecDigits \o <<"A", "B", "C", "D", "E", "F">>
WhiteSpace == {" ", "\t", "\n"}

\* Value of character c as a digit of the radix, or -1.
DigitValue(c, radix) ==
    LET hits == {i \in 1..radix : LowerDigits[i] = c \/ UpperDigits[i] = c}
    IN  IF hits = {} THEN 0 - 1 ELSE (CHOOSE i \in hits : TRUE) - 1

RECURSIVE TrimStart(_)
TrimStart(s) ==
    IF s # <<>> /\ Head(s) \in WhiteSpace THEN TrimStart(Tail(s)) ELSE s

\* The longest prefix of s made of digits of the radix, as [seen, value].
RECURSIVE DigitPrefix(_, _, _, _)
DigitPrefix(s, radix, seen, acc) ==
    IF s = <<>> \/ DigitValue(Head(s), radix) < 0
    THEN [seen |-> seen, value |-> acc]
    ELSE DigitPrefix(Tail(s), radix, TRUE, acc * radix + DigitValue(Head(s), radix))

\* parseInt(string) with no radix argument (ECMAScript parseInt).
parseInt(string) ==
    LET S == TrimStart(string)
        sign == IF S # <<>> /\ Head(S) = "-" THEN 0 - 1 ELSE 1
        S1 == IF S # <<>> /\ Head(S) \in {"+", "-"} THEN Tail(S) ELSE S
        hex == Len(S1) >= 2 /\ S1[1] = "0" /\ S1[2] \in {"x", "X"}
        S2 == IF hex THEN Tail(Tail(S1)) ELSE S1
        Z == DigitPrefix(S2, IF hex THEN 16 ELSE 10, FALSE, 0)
    IN  IF Z.seen THEN sign * Z.value ELSE NaN

\* Number.prototype.toString of an integer.
RECURSIVE toString(_)
toString(n) ==
    IF n < 0 THEN <<"-">> \o toString(0 - n)
    ELSE IF n < 10 THEN <<DecDigits[n + 1]>>
    ELSE toString(n \div 10) \o <<DecDigits[(n % 10) + 1]>>

\* String.prototype.replace(pattern, '') with a one-character string
\* pattern: the first occurrence is removed.
RECURSIVE replace(_, _)
replace(s, pattern) ==
    IF s = <<>> THEN <<>>
    ELSE IF Head(s) = pattern THEN Tail(s)
    ELSE <<Head(s)>> \o replace(Tail(s), pattern)

\* String.prototype.substring(0, end).
substring(s, end) == SubSeq(s, 1, Min(end, Len(s)))

(* -------------------------- the container runtime ---------------------- *)

Binding(hostIp, hostPort) == [HostIp |-> hostIp, HostPort |-> hostPort]
Bound(list) == [tag |-> "array", list |-> list]
Entry(containerPort, hostBindings) ==
    [containerPort |-> containerPort, hostBindings |-> hostBindings]
PortMap(entries) == [tag |-> "object", entries |-> entries]
Settings(ports) == [tag |-> "object", Ports |-> ports]

\* A 64-hex-digit container id, shortened to 13 characters.
ContainerId(c) ==
    <<c>> \o <<"0", "0", "0", "0", "0", "0", "0", "0", "0", "0", "0">> \o <<"f">>

Container(c, name, image, status, settings) ==
    [Id |-> ContainerId(c), Names |-> <<name>>, Image |-> image,
     Status |-> status, NetworkSettings |-> settings]

\* One binding per port of the random range, all on one container port.
RangeBindings == [k \in 1..(RangeHigh - RangeLow + 1) |->
                    Binding("0.0.0.0", toString(RangeLow + k - 1))]

\* The containers the runtime may be running.
Web ==
    Container("a", <<"/", "w", "e", "b">>, <<"n", "g", "i", "n", "x", ":", "l", "a", "t", "e", "s", "t">>, "Up 3 hours",
        Settings(PortMap(<<
            Entry("80/tcp", Bound(<<Binding("0.0.0.0", toString(3001)),
                                    Binding("", toString(3000))>>)) >>)))
Db ==
    Container("b", <<"/", "a", "p", "p", "/", "d", "b">>, <<"p", "o", "s", "t", "g", "r", "e", "s", ":", "1", "6">>, "Up 2 days",
        Settings(PortMap(<<
            Entry("5432/tcp", Bound(<<Binding("127.0.0.1", toString(80))>>)),
            Entry("80/tcp", Bound(<<Binding("0.0.0.0", toString(3000))>>)),
            Entry("80/udp", Bound(<<Binding("0.0.0.0", toString(3000))>>)) >>)))
Sleeper ==
    Container("c", <<"/", "n", "a", "p">>, <<"a", "l", "p", "i", "n", "e", ":", "3">>, "Up 1 minute",
        Settings(Null))
Exposed ==
    Container("d", <<"/", "e", "x", "p">>, <<"r", "e", "d", "i", "s", ":", "7">>, "Up 5 minutes",
        Settings(PortMap(<<
            Entry("443/tcp", Bound(<<>>)),
            Entry("6379/tcp", Null) >>)))
Bad ==
    Container("e", <<"/", "b", "a", "d">>, <<"b", "u", "s", "y", "b", "o", "x">>, "Up 1 second",
        Settings(PortMap(<<
            Entry("80/tcp", Bound(<<Binding("0.0.0.0", <<"a", "b", "c">>)>>)) >>)))
Wide ==
    Container("7", <<"w", "i", "d", "e", "/", "2">>, <<"t", "o", "o", "l", ":", "R", "C", "2">>, "Up 9 days",
        Settings(PortMap(<<
            Entry("81/tcp", Bound(<<Binding("::", toString(70000))>>)),
            Entry("82/tcp", Bound(<<Binding("0.0.0.0", toString(0))>>)) >>)))
Hog ==
    Container("f", <<"/", "h", "o", "g">>, <<"p", "r", "o", "x", "y", ":", "1">>, "Up 4 weeks",
        Settings(PortMap(<< Entry("9000/tcp", Bound(RangeBindings)) >>)))
Ghost ==
    Container("9", <<"/", "g", "h", "o", "s", "t">>, <<"s", "c", "r", "a", "t", "c", "h">>, "Created",
        Undefined)

ContainerPool == {Web, Db, Sleeper, Exposed, Bad, Wide, Hog, Ghost}

\* Every enumeration of at most MaxContainers distinct containers.
RuntimeStates ==
    UNION {{s \in [1..n -> ContainerPool] :
              \A i, j \in 1..n : i # j => s[i].Id # s[j].Id} : n \in 0..MaxContainers}

\* docker.listContainers(): the summaries, in the runtime's order.
listContainers(rt) ==
    [k \in 1..Len(rt) |-> [Id |-> rt[k].Id, Names |-> rt[k].Names,
                           Image |-> rt[k].Image, Status |-> rt[k].Status]]

\* Whether docker.getContainer(id).inspect() finds the container.
Exists(rt, id) == \E k \in 1..Len(rt) : rt[k].Id = id

\* docker.getContainer(id).inspect().
inspect(rt, id) ==
    LET k == CHOOSE k \in 1..Len(rt) : rt[k].Id = id
    IN  [NetworkSettings |-> rt[k].NetworkSettings]

(* ------------------------------ requests ------------------------------- *)

VARIABLES
    docker,   \* the runtime: the running containers, in enumeration order
    req,      \* the request in flight, with the locals of its handler
    instants, \* the states the runtime has been in since that request arrived
    peer,     \* a second request the server handles at the same time
    ui        \* the state of the page (App.tsx) and what it renders

vars == <<docker, req, instants, peer, ui>>

NoResponse == [status |-> 0]

\* No request yet.
NoRequest ==
    [kind |-> "none", pc |-> "idle", param |-> <<>>, portToCheck |-> 0,
     containers |-> <<>>, inspects |-> <<>>, usedPorts |-> <<>>,
     containerInfo |-> <<>>, portInUse |-> FALSE, usedBy |-> Null,
     randomPort |-> 0, attempts |-> 0, draws |-> <<>>,
     listCalls |-> 0, inspectCalls |-> 0, res |-> NoResponse]

\* A request entering its handler.
NewRequest(kind, param) ==
    [NoRequest EXCEPT !.kind = kind, !.pc = "start", !.param = param]

\* const containers = await docker.listContainers(): the call is issued.
CallList(r) == [r EXCEPT !.pc = "list", !.listCalls = @ + 1]

\* await container.inspect() for the next listed container is issued.
CallInspect(r) == [r EXCEPT !.pc = "inspect", !.inspectCalls = @ + 1]

\* The container the handler is waiting on.
Current(r) == r.containers[Len(r.inspects) + 1]

\* res.status(code).json({ error }).
SendError(r, code, message) ==
    [r EXCEPT !.pc = "done", !.res = [status |-> code, error |-> message]]

\* The next request enters once the one in flight has been answered.
Ready == req.pc \in {"idle", "done"}

\* new Set().add(x) on a set kept in insertion order (SameValueZero).
SetAdd(set, x) ==
    IF \E k \in 1..Len(set) : set[k] = x THEN set ELSE Append(set, x)

RECURSIVE SetAddAll(_, _)
SetAddAll(set, xs) ==
    IF xs = <<>> THEN set ELSE SetAddAll(SetAdd(set, Head(xs)), Tail(xs))

\* Set.prototype.has(x) for a number x that is not NaN.
SetHas(set, x) == \E k \in 1..Len(set) : set[k] = x

\* inspect.NetworkSettings.Ports throws when NetworkSettings is undefined.
Throws(insp) == ~Truthy(insp.NetworkSettings)

(* --------------------------- GET /api/health --------------------------- *)

\* The message of the error a rejected docker.ping() carries.
PingError == "connect ENOENT /var/run/docker.sock"

\* Line 25: the request arrives and pings the runtime.
HealthStart ==
    /\ Ready
    /\ req' = [NewRequest("health", <<>>) EXCEPT !.pc = "ping"]
    /\ instants' = {docker}
    /\ UNCHANGED <<docker, peer, ui>>

\* Line 26: the ping resolves.
HealthPing ==
    /\ req.kind = "health" /\ req.pc = "ping"
    /\ req' = [req EXCEPT !.pc = "done",
                          !.res = [status |-> 200, health |-> "healthy",
                                   docker |-> "connected"]]
    /\ UNCHANGED <<docker, instants, peer, ui>>

\* Lines 27-30: the ping rejects.
HealthFails ==
    /\ req.kind = "health" /\ req.pc = "ping"
    /\ req' = [req EXCEPT !.pc = "done",
                          !.res = [status |-> 500, health |-> "unhealthy",
                                   docker |-> "disconnected",
                                   error |-> PingError]]
    /\ UNCHANGED <<docker, instants, peer, ui>>

(* --------------------------- GET /api/ports ---------------------------- *)

\* Mutant: an entry without host bindings is listed as an unbound port.
EntryPorts_ExposedListed(entry) ==
    IF Truthy(entry.hostBindings) /\ Len(entry.hostBindings.list) > 0
    THEN [k \in 1..Len(entry.hostBindings.list) |->
            LET binding == entry.hostBindings.list[k]
            IN  [containerPort |-> entry.containerPort,
                 hostPort |-> parseInt(binding.HostPort),
                 hostIp |-> IF binding.HostIp = "" THEN "0.0.0.0"
                            ELSE binding.HostIp]]
    ELSE <<[containerPort |-> entry.containerPort, hostPort |-> NaN,
            hostIp |-> "0.0.0.0"]>>

\* Lines 48-56: the bindings one port-map entry contributes.
EntryPorts(entry) ==
    IF Truthy(entry.hostBindings)
    THEN [k \in 1..Len(entry.hostBindings.list) |->
            LET binding == entry.hostBindings.list[k]
            IN  [containerPort |-> entry.containerPort,
                 hostPort |-> parseInt(binding.HostPort),
                 hostIp |-> IF binding.HostIp = "" THEN "0.0.0.0"
                            ELSE binding.HostIp]]
    ELSE <<>>

RECURSIVE EntriesPorts(_)
EntriesPorts(entries) ==
    IF entries = <<>> THEN <<>>
    ELSE EntryPorts(Head(entries)) \o EntriesPorts(Tail(entries))

\* Lines 44-59: containerPorts of one inspected container.
containerPorts(insp) ==
    IF Truthy(insp.NetworkSettings.Ports)
    THEN EntriesPorts(insp.NetworkSettings.Ports.entries)
    ELSE <<>>

HostPorts(ports) == [k \in 1..Len(ports) |-> ports[k].hostPort]

\* Lines 62-68: the record pushed for a container with bindings.
ContainerRecord(containerData, ports) ==
    [id |-> substring(containerData.Id, IdDisplayLen),
     name |-> replace(containerData.Names[1], "/"),
     image |-> containerData.Image,
     status |-> containerData.Status,
     ports |-> ports]

\* The comparator (a, b) => a - b; a NaN result counts as 0.
compareFn(a, b) == IF a = NaN \/ b = NaN THEN 0 ELSE a - b

RECURSIVE Insert(_, _)
Insert(sorted, x) ==
    IF sorted = <<>> THEN <<x>>
    ELSE IF compareFn(x, Head(sorted)) < 0 THEN <<x>> \o sorted
    ELSE <<Head(sorted)>> \o Insert(Tail(sorted), x)

RECURSIVE SortNumbers(_)
SortNumbers(xs) ==
    IF xs = <<>> THEN <<>>
    ELSE Insert(SortNumbers(SubSeq(xs, 1, Len(xs) - 1)), xs[Len(xs)])

\* Every ordering of a sequence of distinct elements.
Orderings(xs) ==
    {[k \in 1..Len(xs) |-> p[xs[k]]] : p \in Permutations({xs[k] : k \in 1..Len(xs)})}

\* Array.from(usedPorts).sort((a, b) => a - b): with a NaN among the
\* elements the comparator is inconsistent and the order is whatever the
\* engine produces.
sort(xs) ==
    IF \E k \in 1..Len(xs) : xs[k] = NaN THEN Orderings(xs) ELSE {SortNumbers(xs)}

\* The body as res.json writes it.
PortJSON(port) == [port EXCEPT !.hostPort = JSONNumber(@)]
ContainerJSON(c) == [c EXCEPT !.ports = [k \in 1..Len(@) |-> PortJSON(@[k])]]

\* Line 73: the usedPorts field as res.json writes it.
UsedPortsJSON(r) ==
    {[k \in 1..Len(sorted) |-> JSONNumber(sorted[k])] : sorted \in sort(r.usedPorts)}

\* Lines 72-75.
PortsResponses(r) ==
    {[r EXCEPT !.pc = "done",
               !.res = [status |-> 200,
                        usedPorts |-> usedPorts,
                        containers |-> [k \in 1..Len(r.containerInfo) |->
                                          ContainerJSON(r.containerInfo[k])]]]
       : usedPorts \in UsedPortsJSON(r)}

\* Line 40: containers are left to inspect.
More(r) == Len(r.inspects) < Len(r.containers)

\* Mutant: the container is pushed whatever its bindings.
PortsVisit_AlwaysPush(r, insp) ==
    LET ports == containerPorts(insp)
    IN  [r EXCEPT !.inspects = Append(@, insp),
                  !.usedPorts = SetAddAll(@, HostPorts(ports)),
                  !.containerInfo = Append(@, ContainerRecord(Current(r), ports))]

\* Mutant: the container is put at the front of containerInfo.
PortsVisit_Unshift(r, insp) ==
    LET ports == containerPorts(insp)
    IN  [r EXCEPT !.inspects = Append(@, insp),
                  !.usedPorts = SetAddAll(@, HostPorts(ports)),
                  !.containerInfo = IF Len(ports) > 0
                                    THEN <<ContainerRecord(Current(r), ports)>> \o @
                                    ELSE @]

\* Lines 44-69 for the container just inspected.
PortsVisit(r, insp) ==
    LET ports == containerPorts(insp)
    IN  [r EXCEPT !.inspects = Append(@, insp),
                  !.usedPorts = SetAddAll(@, HostPorts(ports)),
                  !.containerInfo = IF Len(ports) > 0
                                    THEN Append(@, ContainerRecord(Current(r), ports))
                                    ELSE @]

\* Lines 36-69: the locals once the awaited call of r has resolved on
\* runtime rt (the list, or the inspect result of the current container).
PortsResolved(r, rt) ==
    IF r.pc = "list" THEN [r EXCEPT !.containers = listContainers(rt)]
    ELSE LET insp == inspect(rt, Current(r).Id)
         IN  IF Throws(insp)
             THEN SendError(r, 500, "Failed to get Docker container information")
             ELSE PortsVisit(r, insp)

\* The loop of line 40: inspect the next container or answer.
PortsContinue(r) ==
    IF r.pc = "done" THEN {r}
    ELSE IF More(r) THEN {CallInspect(r)}
    ELSE PortsResponses(r)

\* Lines 36-70: the locals at the end of the loop on runtime rt when no
\* runtime call rejects (pc is "done" when inspect.NetworkSettings threw).
RECURSIVE PortsLoop(_, _)
PortsLoop(r, rt) ==
    LET s == PortsResolved(r, rt)
    IN  IF s.pc # "done" /\ More(s) THEN PortsLoop(CallInspect(s), rt) ELSE s

\* Lines 34-75: the usedPorts that GET /api/ports can answer on runtime rt.
GetPortsUsedPorts(rt) ==
    LET s == PortsLoop(CallList(NewRequest("ports", <<>>)), rt)
    IN  IF s.pc = "done" THEN {} ELSE UsedPortsJSON(s)

\* Line 36: the request arrives and asks for the container list.
GetPortsStart ==
    /\ Ready
    /\ req' = CallList(NewRequest("ports", <<>>))
    /\ instants' = {docker}
    /\ UNCHANGED <<docker, peer, ui>>

\* Lines 36-40: the list arrives.
GetPortsList ==
    /\ req.kind = "ports" /\ req.pc = "list"
    /\ req' \in PortsContinue(PortsResolved(req, docker))
    /\ UNCHANGED <<docker, instants, peer, ui>>

\* Lines 42-75: one inspect result arrives.
GetPortsInspect ==
    /\ req.kind = "ports" /\ req.pc = "inspect"
    /\ Exists(docker, Current(req).Id)
    /\ req' \in PortsContinue(PortsResolved(req, docker))
    /\ UNCHANGED <<docker, instants, peer, ui>>

\* Mutant: a rejected call is issued again.
GetPortsFails_Retry ==
    /\ req.kind = "ports" /\ req.pc \in {"list", "inspect"}
    /\ req' = IF req.pc = "list" THEN CallList(req) ELSE CallInspect(req)
    /\ UNCHANGED <<docker, instants, peer, ui>>

\* Lines 76-79: an awaited runtime call rejects.
GetPortsFails ==
    /\ req.kind = "ports" /\ req.pc \in {"list", "inspect"}
    /\ req' = SendError(req, 500, "Failed to get Docker container information")
    /\ UNCHANGED <<docker, instants, peer, ui>>

(* ----------------------- GET /api/ports/:port/check -------------------- *)

\* The :port parameters a client sends: integers written in decimal ...
IntParams == {0, 1, 80, 3000, 65535, 65536}

\* ... and texts that are not wholly a decimal integer.
TextParams == {<<"a", "b", "c">>, <<"3", "0", "0", "0", "x">>, <<"0", "x", "5", "0">>}

PortParams == {toString(n) : n \in IntParams} \cup TextParams

\* Mutant: only the first binding of a list is compared.
HasHostPort_FirstBindingOnly(hostBindings, port) ==
    /\ Len(hostBindings.list) > 0
    /\ StrictEquals(parseInt(hostBindings.list[1].HostPort), port)

\* Lines 102-111: whether a binding of the list has the host port.
HasHostPort(hostBindings, port) ==
    \E k \in 1..Len(hostBindings.list) :
        StrictEquals(parseInt(hostBindings.list[k].HostPort), port)

\* Lines 100-114: the first entry, in table order, with such a binding.
RECURSIVE FindEntry(_, _)
FindEntry(entries, port) ==
    IF entries = <<>> THEN Null
    ELSE IF Truthy(Head(entries).hostBindings)
            /\ HasHostPort(Head(entries).hostBindings, port)
         THEN [tag |-> "object", containerPort |-> Head(entries).containerPort]
    ELSE FindEntry(Tail(entries), port)

\* Lines 99-116 for the container just inspected.
CheckVisit(r, insp) ==
    LET found == IF Truthy(insp.NetworkSettings.Ports)
                 THEN FindEntry(insp.NetworkSettings.Ports.entries, r.portToCheck)
                 ELSE Null
    IN  IF Truthy(found)
        THEN [r EXCEPT !.inspects = Append(@, insp),
                       !.portInUse = TRUE,
                       !.usedBy = [tag |-> "object",
                                   container |-> replace(Current(r).Names[1], "/"),
                                   containerPort |-> found.containerPort]]
        ELSE [r EXCEPT !.inspects = Append(@, insp)]

\* Mutant: available is not negated.
CheckResponse_AvailableFlipped(r) ==
    [r EXCEPT !.pc = "done",
              !.res = [status |-> 200, port |-> JSONNumber(r.portToCheck),
                       available |-> r.portInUse, usedBy |-> r.usedBy]]

\* Lines 119-123.
CheckResponse(r) ==
    [r EXCEPT !.pc = "done",
              !.res = [status |-> 200, port |-> JSONNumber(r.portToCheck),
                       available |-> ~r.portInUse, usedBy |-> r.usedBy]]

\* Mutant: the outer loop does not break on a match.
CheckContinue_NoBreak(r) ==
    IF More(r) THEN CallInspect(r)
    ELSE CheckResponse(r)

\* The loop of line 95 with its break of line 115.
CheckContinue(r) ==
    IF ~r.portInUse /\ More(r) THEN CallInspect(r)
    ELSE CheckResponse(r)

\* Mutant: both limits off by one.
InvalidPort_LooseLimits(portToCheck) ==
    isNaN(portToCheck) \/ portToCheck < MinPort - 1 \/ portToCheck > MaxPort + 1

\* Line 87.
InvalidPort(portToCheck) ==
    isNaN(portToCheck) \/ portToCheck < MinPort \/ portToCheck > MaxPort

\* Lines 85-91: the request arrives, is validated and asks for the list.
CheckStart ==
    /\ Ready
    /\ \E param \in PortParams :
          LET r == [NewRequest("check", param) EXCEPT !.portToCheck = parseInt(param)]
          IN  req' = IF InvalidPort(r.portToCheck)
                     THEN SendError(r, 400, "Invalid port number")
                     ELSE CallList(r)
    /\ instants' = {docker}
    /\ UNCHANGED <<docker, peer, ui>>

\* Lines 91-95: the list arrives.
CheckList ==
    /\ req.kind = "check" /\ req.pc = "list"
    /\ req' = CheckContinue([req EXCEPT !.containers = listContainers(docker)])
    /\ UNCHANGED <<docker, instants, peer, ui>>

\* Lines 97-123: one inspect result arrives.
CheckInspect ==
    /\ req.kind = "check" /\ req.pc = "inspect"
    /\ Exists(docker, Current(req).Id)
    /\ LET insp == inspect(docker, Current(req).Id)
       IN  IF Throws(insp)
           THEN req' = SendError(req, 500, "Failed to check port availability")
           ELSE req' = CheckContinue(CheckVisit(req, insp))
    /\ UNCHANGED <<docker, instants, peer, ui>>

\* Lines 124-127: an awaited runtime call rejects.
CheckFails ==
    /\ req.kind = "check" /\ req.pc \in {"list", "inspect"}
    /\ req' = SendError(req, 500, "Failed to check port availability")
    /\ UNCHANGED <<docker, instants, peer, ui>>

(* -------------------------- GET /api/ports/random ---------------------- *)

\* Mutant: only the first binding of a container is added.
RandomVisit_FirstBindingOnly(r, insp) ==
    [r EXCEPT !.inspects = Append(@, insp),
              !.usedPorts = SetAddAll(@, SubSeq(HostPorts(containerPorts(insp)), 1, 1))]

\* Lines 140-148 for the container just inspected.
RandomVisit(r, insp) ==
    [r EXCEPT !.inspects = Append(@, insp),
              !.usedPorts = SetAddAll(@, HostPorts(containerPorts(insp)))]

\* Mutant: the width of the range lacks its + 1.
RandomDraws_SkipsTop == RangeLow..(RangeHigh - 1)

\* Math.floor(Math.random() * (9999 - 3000 + 1)) + 3000.
RandomDraws == RangeLow..RangeHigh

\* Lines 157-158: one iteration draws randomPort and counts the attempt.
Draw(r, randomPort) ==
    [r EXCEPT !.randomPort = randomPort, !.attempts = @ + 1,
              !.draws = Append(@, randomPort)]

\* Mutant: the membership test is negated.
Again_WhileFree(r) == ~SetHas(r.usedPorts, r.randomPort) /\ r.attempts < maxAttempts

\* Mutant: the budget allows one draw more.
Again_OneMore(r) == SetHas(r.usedPorts, r.randomPort) /\ r.attempts <= maxAttempts

\* Line 159: the loop goes round again.
Again(r) == SetHas(r.usedPorts, r.randomPort) /\ r.attempts < maxAttempts

\* Lines 156-159: the locals the do-while loop can end with.
RECURSIVE DoWhile(_)
DoWhile(r) ==
    UNION {IF Again(Draw(r, randomPort)) THEN DoWhile(Draw(r, randomPort))
           ELSE {Draw(r, randomPort)} : randomPort \in RandomDraws}

\* Mutant: the budget test is strict.
RandomResponse_StrictBudget(r) ==
    IF r.attempts > maxAttempts
    THEN SendError(r, 500, "Could not find available port")
    ELSE [r EXCEPT !.pc = "done",
                   !.res = [status |-> 200, port |-> r.randomPort,
                            available |-> TRUE]]

\* Lines 161-168.
RandomResponse(r) ==
    IF r.attempts >= maxAttempts
    THEN SendError(r, 500, "Could not find available port")
    ELSE [r EXCEPT !.pc = "done",
                   !.res = [status |-> 200, port |-> r.randomPort,
                            available |-> TRUE]]

\* The loop of line 136: inspect the next container or draw.
RandomContinue(r) ==
    IF More(r) THEN {CallInspect(r)}
    ELSE {RandomResponse(s) : s \in DoWhile(r)}

\* Line 133: the request arrives and asks for the container list.
RandomStart ==
    /\ Ready
    /\ req' = CallList(NewRequest("random", <<>>))
    /\ instants' = {docker}
    /\ UNCHANGED <<docker, peer, ui>>

\* Lines 133-136: the list arrives.
RandomList ==
    /\ req.kind = "random" /\ req.pc = "list"
    /\ req' \in RandomContinue([req EXCEPT !.containers = listContainers(docker)])
    /\ UNCHANGED <<docker, instants, peer, ui>>

\* Mutant: the port answered is bound on the runtime to reserve it.
RandomInspect_ReservesPort ==
    /\ req.kind = "random" /\ req.pc = "inspect"
    /\ Exists(docker, Current(req).Id)
    /\ LET insp == inspect(docker, Current(req).Id)
       IN  IF Throws(insp)
           THEN req' = SendError(req, 500, "Failed to get random port")
           ELSE req' \in RandomContinue(RandomVisit(req, insp))
    /\ docker' = IF req'.pc = "done" /\ req'.res.status = 200
                 THEN <<Container("0", <<"/", "h", "e", "l", "d">>, <<"s", "c", "r", "a", "t", "c", "h">>, "Up",
                          Settings(PortMap(<<Entry("1/tcp",
                              Bound(<<Binding("0.0.0.0", toString(req'.res.port))>>))>>)))>>
                      \o docker
                 ELSE docker
    /\ UNCHANGED <<instants, peer, ui>>

\* Lines 138-168: one inspect result arrives.
RandomInspect ==
    /\ req.kind = "random" /\ req.pc = "inspect"
    /\ Exists(docker, Current(req).Id)
    /\ LET insp == inspect(docker, Current(req).Id)
       IN  IF Throws(insp)
           THEN req' = SendError(req, 500, "Failed to get random port")
           ELSE req' \in RandomContinue(RandomVisit(req, insp))
    /\ UNCHANGED <<docker, instants, peer, ui>>

\* Mutant: the catch block answers with the exhaustion text.
RandomFails_ExhaustionText ==
    /\ req.kind = "random" /\ req.pc \in {"list", "inspect"}
    /\ req' = SendError(req, 500, "Could not find available port")
    /\ UNCHANGED <<docker, instants, peer, ui>>

\* Lines 169-172: an awaited runtime call rejects.
RandomFails ==
    /\ req.kind = "random" /\ req.pc \in {"list", "inspect"}
    /\ req' = SendError(req, 500, "Failed to get random port")
    /\ UNCHANGED <<docker, instants, peer, ui>>

(* ------------------------------ the page ------------------------------- *)

UpperLetters ==
    <<"A", "B", "C", "D", "E", "F", "G", "H", "I", "J", "K", "L", "M",
      "N", "O", "P", "Q", "R", "S", "T", "U", "V", "W", "X", "Y", "Z">>
LowerLetters ==
    <<"a", "b", "c", "d", "e", "f", "g", "h", "i", "j", "k", "l", "m",
      "n", "o", "p", "q", "r", "s", "t", "u", "v", "w", "x", "y", "z">>

\* String.prototype.toLowerCase.
toLowerCase(s) ==
    [k \in 1..Len(s) |->
        IF \E i \in 1..Len(UpperLetters) : UpperLetters[i] = s[k]
        THEN LowerLetters[CHOOSE i \in 1..Len(UpperLetters) : UpperLetters[i] = s[k]]
        ELSE s[k]]

\* String.prototype.includes.
includes(s, searchString) ==
    \E i \in 0..(Len(s) - Len(searchString)) :
        SubSeq(s, i + 1, i + Len(searchString)) = searchString

\* The error of calling a method on null.
TypeError == [tag |-> "TypeError"]

\* Lines 149-151: port.toString() throws for a port that is null.
PortsFilterThrows(u) ==
    \E k \in 1..Len(u.portData.usedPorts) : u.portData.usedPorts[k] = JSONNull

\* Lines 149-151.
filteredPorts(u) ==
    SelectSeq(u.portData.usedPorts,
              LAMBDA port : includes(toString(port), u.searchTerm))

\* Lines 154-155: the name or the image of the container matches.
NamedLike(container, searchTerm) ==
    \/ includes(toLowerCase(container.name), toLowerCase(searchTerm))
    \/ includes(toLowerCase(container.image), toLowerCase(searchTerm))

\* Line 156: ports.some(...) goes through the bindings in order and stops
\* at the first match; result "throws" when it meets a null hostPort first.
RECURSIVE some(_, _)
some(ports, searchTerm) ==
    IF ports = <<>> THEN "false"
    ELSE IF Head(ports).hostPort = JSONNull THEN "throws"
    ELSE IF includes(toString(Head(ports).hostPort), searchTerm) THEN "true"
    ELSE some(Tail(ports), searchTerm)

\* Lines 153-157: the filter callback throws for some container.
ContainersFilterThrows(u) ==
    \E k \in 1..Len(u.portData.containers) :
        /\ ~NamedLike(u.portData.containers[k], u.searchTerm)
        /\ some(u.portData.containers[k].ports, u.searchTerm) = "throws"

\* Lines 153-157.
filteredContainers(u) ==
    SelectSeq(u.portData.containers,
              LAMBDA container :
                  \/ NamedLike(container, u.searchTerm)
                  \/ some(container.ports, u.searchTerm) = "true")

\* Lines 149-157: what a render of state u computes, or the error it
\* throws (the page has no error boundary and is unmounted).
Render(u) ==
    IF PortsFilterThrows(u) \/ ContainersFilterThrows(u)
    THEN [u EXCEPT !.view = TypeError]
    ELSE [u EXCEPT !.view = [tag |-> "rendered",
                             filteredPorts |-> filteredPorts(u),
                             filteredContainers |-> filteredContainers(u)]]

\* Lines 34-41 and 101-103: the state the page is created with, once its
\* mount effect has called fetchPortData; randomPort, a number or null,
\* starts as the null of numbers.
InitialUI ==
    Render([portData |-> [usedPorts |-> <<>>, containers |-> <<>>],
            loading |-> TRUE, searchTerm |-> <<>>,
            portCheck |-> Null, checkingPort |-> FALSE, randomPort |-> JSONNull,
            generatingPort |-> FALSE, error |-> Null, fetches |-> 1,
            checks |-> <<>>, generates |-> 0, view |-> Null])

Init ==
    /\ docker \in RuntimeStates
    /\ req = NoRequest
    /\ instants = {docker}
    /\ peer = NoRequest
    /\ ui = InitialUI

Next ==
    \/ HealthStart \/ HealthPing \/ HealthFails
    \/ GetPortsStart \/ GetPortsList \/ GetPortsInspect \/ GetPortsFails
    \/ CheckStart \/ CheckList \/ CheckInspect \/ CheckFails
    \/ RandomStart \/ RandomList \/ RandomInspect \/ RandomFails

Spec == Init /\ [][Next]_vars

(* ------------------------- a runtime that changes ---------------------- *)

\* The containers that come and go while a request is handled.
ChurnPool == {Web, Db, Sleeper}

ChurnStates ==
    {rt \in RuntimeStates : \A k \in 1..Len(rt) : rt[k] \in ChurnPool}

\* The handler awaits the runtime: it is between two of its steps.
Awaiting == req.pc \in {"list", "inspect"}

\* The runtime moves to state rt while the request in flight awaits it.
ChangeTo(rt) ==
    /\ Awaiting
    /\ rt # docker
    /\ Cardinality(instants \cup {rt}) <= MaxChanges + 1
    /\ docker' = rt
    /\ instants' = instants \cup {rt}
    /\ UNCHANGED <<req, peer, ui>>

\* A container starts: the runtime lists it first.
ContainerStarts ==
    \E c \in ChurnPool :
        /\ ~Exists(docker, c.Id)
        /\ Len(docker) < MaxContainers
        /\ ChangeTo(<<c>> \o docker)

\* A container is stopped and removed.
ContainerStops ==
    \E i \in 1..Len(docker) :
        ChangeTo(SubSeq(docker, 1, i - 1) \o SubSeq(docker, i + 1, Len(docker)))

\* A container is restarted and comes back, under its id, with other bindings.
ContainerRestarts ==
    \E i \in 1..Len(docker) : \E c \in ChurnPool :
        ChangeTo([docker EXCEPT ![i].NetworkSettings = c.NetworkSettings])

InitChurn ==
    /\ docker \in ChurnStates
    /\ req = NoRequest
    /\ instants = {docker}
    /\ peer = NoRequest
    /\ ui = InitialUI

NextChurn ==
    \/ Next
    \/ ContainerStarts \/ ContainerStops \/ ContainerRestarts

SpecChurn == InitChurn /\ [][NextChurn]_vars

(* ------------------------- two requests at a time ---------------------- *)

\* The error text of a handler's catch block.
FailureText(kind) ==
    CASE kind = "ports" -> "Failed to get Docker container information"
      [] kind = "check" -> "Failed to check port availability"
      [] kind = "random" -> "Failed to get random port"

\* The handler of request r once the call it awaits has rejected.
Rejected(r) == SendError(r, 500, FailureText(r.kind))

\* The handler of request r once the call it awaits has resolved on
\* runtime rt: the states it can be in at its next await or at its answer.
Resolved(r, rt) ==
    IF r.kind = "ports" THEN PortsContinue(PortsResolved(r, rt))
    ELSE IF r.pc = "list"
    THEN LET s == [r EXCEPT !.containers = listContainers(rt)]
         IN  IF r.kind = "check" THEN {CheckContinue(s)} ELSE RandomContinue(s)
    ELSE LET insp == inspect(rt, Current(r).Id)
         IN  IF Throws(insp) THEN {Rejected(r)}
             ELSE IF r.kind = "check" THEN {CheckContinue(CheckVisit(r, insp))}
             ELSE RandomContinue(RandomVisit(r, insp))

\* A request as its handler starts: the answer of line 88, or the first await.
Arrived(kind, param) ==
    LET r == [NewRequest(kind, param) EXCEPT
                !.portToCheck = IF kind = "check" THEN parseInt(param) ELSE 0]
    IN  IF kind = "check" /\ InvalidPort(r.portToCheck)
        THEN SendError(r, 400, "Invalid port number")
        ELSE CallList(r)

\* The answers request r can still get on runtime rt when no other request
\* is handled.
RECURSIVE Ends(_, _)
Ends(r, rt) ==
    IF r.pc = "done" THEN {r.res}
    ELSE {Rejected(r).res}
         \cup (IF r.pc = "inspect" /\ ~Exists(rt, Current(r).Id) THEN {}
               ELSE UNION {Ends(s, rt) : s \in Resolved(r, rt)})

\* The requests a client sends.
Requests ==
    {<<"ports", <<>> >>, <<"random", <<>> >>} \cup {<<"check", param>> : param \in PortParams}

\* Once a request is answered nothing of it is kept.
Forget(r) == IF r.pc = "done" THEN NoRequest ELSE r

\* A second request arrives while the first may be in flight.
PeerArrives ==
    /\ peer.pc = "idle"
    /\ \E q \in Requests : peer' = Forget(Arrived(q[1], q[2]))
    /\ UNCHANGED <<docker, req, instants, ui>>

\* Mutant: the handlers keep their collections in variables they share.
PeerResolves_SharedLocals ==
    /\ peer.pc \in {"list", "inspect"}
    /\ peer.pc = "inspect" => Exists(docker, Current(peer).Id)
    /\ \E s \in Resolved(peer, docker) :
          /\ peer' = Forget(s)
          /\ req' = IF Awaiting
                    THEN [req EXCEPT !.usedPorts = s.usedPorts,
                                     !.containerInfo = s.containerInfo,
                                     !.portInUse = s.portInUse,
                                     !.usedBy = s.usedBy]
                    ELSE req
    /\ UNCHANGED <<docker, instants, ui>>

\* The call the second request awaits resolves.
PeerResolves ==
    /\ peer.pc \in {"list", "inspect"}
    /\ peer.pc = "inspect" => Exists(docker, Current(peer).Id)
    /\ \E s \in Resolved(peer, docker) : peer' = Forget(s)
    /\ UNCHANGED <<docker, req, instants, ui>>

\* The call the second request awaits rejects.
PeerFails ==
    /\ peer.pc \in {"list", "inspect"}
    /\ peer' = Forget(Rejected(peer))
    /\ UNCHANGED <<docker, req, instants, ui>>

\* The runtimes the two requests are run against.
PeerPool == {Web, Db, Exposed}

InitPeer ==
    /\ docker \in {rt \in RuntimeStates : \A k \in 1..Len(rt) : rt[k] \in PeerPool}
    /\ req = NoRequest
    /\ instants = {docker}
    /\ peer = NoRequest
    /\ ui = InitialUI

NextPeer ==
    \/ Next
    \/ PeerArrives \/ PeerResolves \/ PeerFails

SpecPeer == InitPeer /\ [][NextPeer]_vars

(* --------------------------- the page's events ------------------------- *)

\* The texts typed into the search box.
SearchTerms ==
    {<<>>, <<"3", "0", "0">>, <<"8", "0">>, <<"W", "e", "B">>, <<"d", "b">>,
     <<"r", "c">>, <<"N", "G">>, <<"z">>}

\* The message of the error a rejected fetch carries.
FetchError == "Failed to fetch"

ErrorText(text) == [tag |-> "string", text |-> text]

Mounted == ui.view # TypeError

\* Line 200: onChange of the search box.
SetSearchTerm ==
    /\ Mounted
    /\ \E searchTerm \in SearchTerms :
          ui' = Render([ui EXCEPT !.searchTerm = searchTerm])
    /\ UNCHANGED <<docker, req, instants, peer>>

\* Lines 84-88: Refresh Data (enabled when not loading) or Retry (shown
\* with an error) is clicked, and the request is sent.
FetchPortDataStart ==
    /\ Mounted
    /\ ~ui.loading \/ Truthy(ui.error)
    /\ ui' = Render([ui EXCEPT !.loading = TRUE, !.error = Null,
                               !.fetches = @ + 1])
    /\ UNCHANGED <<docker, req, instants, peer>>

\* Lines 88-98: the answer of GET /api/ports arrives.
FetchPortDataAnswers ==
    /\ Mounted /\ ui.fetches > 0
    /\ \E res \in Ends(Arrived("ports", <<>>), docker) :
          ui' = Render(
                  IF res.status = 200
                  THEN [ui EXCEPT !.portData = [usedPorts |-> res.usedPorts,
                                               containers |-> res.containers],
                                  !.loading = FALSE, !.fetches = @ - 1]
                  ELSE [ui EXCEPT !.error = ErrorText("Failed to fetch port data"),
                                  !.loading = FALSE, !.fetches = @ - 1])
    /\ UNCHANGED <<docker, req, instants, peer>>

\* Lines 88-98: the request fails before any answer.
FetchPortDataRejects ==
    /\ Mounted /\ ui.fetches > 0
    /\ ui' = Render([ui EXCEPT !.error = ErrorText(FetchError),
                               !.loading = FALSE, !.fetches = @ - 1])
    /\ UNCHANGED <<docker, req, instants, peer>>

\* The runtimes the page is shown.
PagePool == {Web, Db, Wide, Bad}

InitPage ==
    /\ docker \in {rt \in RuntimeStates : \A k \in 1..Len(rt) : rt[k] \in PagePool}
    /\ req = NoRequest
    /\ instants = {docker}
    /\ peer = NoRequest
    /\ ui = InitialUI

NextPage ==
    \/ SetSearchTerm
    \/ FetchPortDataStart \/ FetchPortDataAnswers \/ FetchPortDataRejects

SpecPage == InitPage /\ [][NextPage]_vars

(* ------------------------- the page's requests ------------------------- *)

\* Bound: fetchPortData requests in flight at once.
MaxInFlight == 2

RECURSIVE TrimEnd(_)
TrimEnd(s) ==
    IF s # <<>> /\ s[Len(s)] \in WhiteSpace
    THEN TrimEnd(SubSeq(s, 1, Len(s) - 1)) ELSE s

\* String.prototype.trim.
trim(s) == TrimEnd(TrimStart(s))

\* The texts typed into the search box before Check Port is clicked.
PortTerms ==
    {<<" ">>, <<"0">>, <<"x">>, <<"7", "0", "0", "0", "0">>,
     <<" ", "8", "0", " ">>, <<"3", "0", "0", "0">>}

\* Lines 110-116: the result checkPort shows for a number it does not send.
InvalidResult(portNumber) ==
    [port |-> portNumber, available |-> FALSE,
     usedBy |-> [container |-> "Invalid",
                 containerPort |-> "Invalid port number (1-65535)"]]

\* Mutant: checkPort accepts port 0.
checkPort_NoLowerLimit(u) ==
    IF trim(u.searchTerm) = <<>> THEN u
    ELSE LET portNumber == parseInt(trim(u.searchTerm))
         IN  IF isNaN(portNumber) \/ portNumber > 65535
             THEN [u EXCEPT !.portCheck = InvalidResult(portNumber)]
             ELSE [u EXCEPT !.checkingPort = TRUE,
                            !.checks = Append(@, toString(portNumber))]

\* Lines 105-120: checkPort on state u, up to its return or its await of
\* fetch; checks holds the ports of the requests it has sent.
checkPort(u) ==
    IF trim(u.searchTerm) = <<>> THEN u
    ELSE LET portNumber == parseInt(trim(u.searchTerm))
         IN  IF isNaN(portNumber) \/ portNumber < 1 \/ portNumber > 65535
             THEN [u EXCEPT !.portCheck = InvalidResult(portNumber)]
             ELSE [u EXCEPT !.checkingPort = TRUE,
                            !.checks = Append(@, toString(portNumber))]

\* Line 200: onChange of the search box, with a text to check.
SetPortTerm ==
    /\ Mounted
    /\ \E searchTerm \in PortTerms :
          ui' = Render([ui EXCEPT !.searchTerm = searchTerm])
    /\ UNCHANGED <<docker, req, instants, peer>>

\* Lines 211-213: Check Port is clicked; the button is disabled while a
\* check is pending and while the trimmed search term is empty.
CheckPortStart ==
    /\ Mounted
    /\ ~(ui.checkingPort \/ trim(ui.searchTerm) = <<>>)
    /\ ui' = Render(checkPort(ui))
    /\ UNCHANGED <<docker, req, instants, peer>>

Without(s, k) == SubSeq(s, 1, k - 1) \o SubSeq(s, k + 1, Len(s))

\* Mutant: a check that succeeds clears the error message.
CheckPortAnswers_ClearsError ==
    /\ Mounted
    /\ \E k \in 1..Len(ui.checks) :
       \E res \in Ends(Arrived("check", ui.checks[k]), docker) :
          ui' = Render(
                  IF res.status = 200
                  THEN [ui EXCEPT !.portCheck = [port |-> res.port,
                                                available |-> res.available,
                                                usedBy |-> res.usedBy],
                                  !.error = Null,
                                  !.checkingPort = FALSE,
                                  !.checks = Without(@, k)]
                  ELSE [ui EXCEPT !.error = ErrorText("Failed to check port"),
                                  !.checkingPort = FALSE,
                                  !.checks = Without(@, k)])
    /\ UNCHANGED <<docker, req, instants, peer>>

\* Lines 120-130: the answer of GET /api/ports/:port/check arrives.
CheckPortAnswers ==
    /\ Mounted
    /\ \E k \in 1..Len(ui.checks) :
       \E res \in Ends(Arrived("check", ui.checks[k]), docker) :
          ui' = Render(
                  IF res.status = 200
                  THEN [ui EXCEPT !.portCheck = [port |-> res.port,
                                                available |-> res.available,
                                                usedBy |-> res.usedBy],
                                  !.checkingPort = FALSE,
                                  !.checks = Without(@, k)]
                  ELSE [ui EXCEPT !.error = ErrorText("Failed to check port"),
                                  !.checkingPort = FALSE,
                                  !.checks = Without(@, k)])
    /\ UNCHANGED <<docker, req, instants, peer>>

\* Mutant: the failure path of checkPort has no finally block.
CheckPortRejects_NoFinally ==
    /\ Mounted
    /\ \E k \in 1..Len(ui.checks) :
          ui' = Render([ui EXCEPT !.error = ErrorText(FetchError),
                                  !.checks = Without(@, k)])
    /\ UNCHANGED <<docker, req, instants, peer>>

\* Lines 120-130: the request fails before any answer.
CheckPortRejects ==
    /\ Mounted
    /\ \E k \in 1..Len(ui.checks) :
          ui' = Render([ui EXCEPT !.error = ErrorText(FetchError),
                                  !.checkingPort = FALSE,
                                  !.checks = Without(@, k)])
    /\ UNCHANGED <<docker, req, instants, peer>>

\* Lines 133-136 and 225-227: Generate Port is clicked (the button is
\* disabled while a generation is pending), and the request is sent.
GenerateRandomPortStart ==
    /\ Mounted
    /\ ~ui.generatingPort
    /\ ui' = Render([ui EXCEPT !.generatingPort = TRUE, !.generates = @ + 1])
    /\ UNCHANGED <<docker, req, instants, peer>>

\* Lines 136-146: the answer of GET /api/ports/random arrives.
GenerateRandomPortAnswers ==
    /\ Mounted /\ ui.generates > 0
    /\ \E res \in Ends(Arrived("random", <<>>), docker) :
          ui' = Render(
                  IF res.status = 200
                  THEN [ui EXCEPT !.randomPort = res.port,
                                  !.generatingPort = FALSE,
                                  !.generates = @ - 1]
                  ELSE [ui EXCEPT !.error =
                                     ErrorText("Failed to generate random port"),
                                  !.generatingPort = FALSE,
                                  !.generates = @ - 1])
    /\ UNCHANGED <<docker, req, instants, peer>>

\* Lines 136-146: the request fails before any answer.
GenerateRandomPortRejects ==
    /\ Mounted /\ ui.generates > 0
    /\ ui' = Render([ui EXCEPT !.error = ErrorText(FetchError),
                               !.generatingPort = FALSE, !.generates = @ - 1])
    /\ UNCHANGED <<docker, req, instants, peer>>

\* Lines 84-88, 318 and 421: fetchPortData is called while fewer than
\* MaxInFlight of its requests are pending.
FetchPortDataAgain ==
    /\ ui.fetches < MaxInFlight
    /\ FetchPortDataStart

\* The runtimes the buttons are tried on.
ButtonPool == {Web}

InitButtons ==
    /\ docker \in {rt \in RuntimeStates : \A k \in 1..Len(rt) : rt[k] \in ButtonPool}
    /\ req = NoRequest
    /\ instants = {docker}
    /\ peer = NoRequest
    /\ ui = InitialUI

NextButtons ==
    \/ SetPortTerm
    \/ FetchPortDataAgain \/ FetchPortDataAnswers \/ FetchPortDataRejects
    \/ CheckPortStart \/ CheckPortAnswers \/ CheckPortRejects
    \/ GenerateRandomPortStart \/ GenerateRandomPortAnswers
    \/ GenerateRandomPortRejects

SpecButtons == InitButtons /\ [][NextButtons]_vars

(* ------------------------------- claims -------------------------------- *)

Done(kind) == req.kind = kind /\ req.pc = "done"
Answered(kind) == Done(kind) /\ req.res.status = 200

Elements(xs) == {xs[k] : k \in 1..Len(xs)}

\* The host bindings of a container of the runtime, entry by entry.
BindingsOf(c) ==
    IF Truthy(c.NetworkSettings) /\ Truthy(c.NetworkSettings.Ports)
    THEN UNION {IF Truthy(e.hostBindings) THEN Elements(e.hostBindings.list) ELSE {}
                  : e \in Elements(c.NetworkSettings.Ports.entries)}
    ELSE {}

\* The host ports the runtime has bound, as numbers.
BoundPorts(rt) ==
    UNION {{parseInt(b.HostPort) : b \in BindingsOf(c)} : c \in Elements(rt)}

\* The containers of the runtime binding host port p, by position.
Binders(rt, p) ==
    {i \in 1..Len(rt) : \E b \in BindingsOf(rt[i]) : parseInt(b.HostPort) = p}

\* A runtime failure answer of a handler (its catch block).
RuntimeFailure ==
    /\ req.pc = "done" /\ req.res.status = 500
    /\ req.res.error \in {"Failed to get Docker container information",
                          "Failed to check port availability",
                          "Failed to get random port"}

\* C1: in every successful GET /api/ports response usedPorts is the strictly
\* ascending, duplicate-free sequence of exactly the hostPort values of the
\* returned containers' bindings.
C1_UsedPortsIsSortedUnion ==
    Answered("ports") =>
        LET usedPorts == req.res.usedPorts
            returned == UNION {{c.ports[k].hostPort : k \in 1..Len(c.ports)}
                                 : c \in Elements(req.res.containers)}
        IN  /\ \A i, j \in 1..Len(usedPorts) :
                  i < j => /\ usedPorts[i] # JSONNull /\ usedPorts[j] # JSONNull
                           /\ usedPorts[i] < usedPorts[j]
            /\ Elements(usedPorts) = returned

\* C2: on one runtime snapshot, a successful check of port p answers
\* available = true exactly when p is not in the usedPorts that
\* GET /api/ports answers.
C2_CheckAgreesWithUsedPorts ==
    Answered("check") =>
        \A usedPorts \in GetPortsUsedPorts(docker) :
            req.res.available <=> req.res.port \notin Elements(usedPorts)

C2_Witness ==
    /\ Answered("check") /\ ~req.res.available
    /\ \E usedPorts \in GetPortsUsedPorts(docker) :
          req.res.port \in Elements(usedPorts)

\* C3: a check of an integer port below 1 or above 65535 is answered with
\* status 400 before any listContainers or inspect call; 1 and 65535 pass
\* the validation.
C3_OutOfRangeRejectedWithoutRuntimeCall ==
    req.kind = "check" =>
        \A n \in IntParams :
            req.param = toString(n) =>
                IF n < MinPort \/ n > MaxPort
                THEN /\ req.pc = "done" /\ req.res.status = 400
                     /\ req.listCalls = 0 /\ req.inspectCalls = 0
                ELSE req.res.status # 400 /\ req.listCalls = 1

C3_Witness ==
    /\ Done("check") /\ req.param = toString(MaxPort + 1)
    /\ req.res.status = 400 /\ req.listCalls = 0

\* C4: a successful random-port response carries available = true and a
\* port of the range that no binding of the request's snapshot uses.
C4_RandomPortIsFree ==
    Answered("random") =>
        /\ req.res.port \in RangeLow..RangeHigh
        /\ req.res.port \notin BoundPorts(docker)
        /\ req.res.available = TRUE

C4_Witness ==
    /\ Answered("random") /\ Len(req.draws) >= 2
    /\ req.draws[1] \in BoundPorts(docker)

\* C5: the random-port handler accepts the first free draw within its
\* budget: if draw k <= maxAttempts is the first one not in usedPorts the
\* answer is that port, and exhaustion is answered only when all
\* maxAttempts draws were in usedPorts.
C5_FirstFreeDrawAccepted ==
    (Done("random") /\ ~RuntimeFailure) =>
        LET free == {k \in 1..Len(req.draws) : req.draws[k] \notin BoundPorts(docker)}
        IN  IF free # {}
            THEN /\ req.res.status = 200
                 /\ \A k \in free : (\A j \in free : k <= j) => req.res.port = req.draws[k]
            ELSE req.res.status = 500 /\ Len(req.draws) = maxAttempts

\* C6: when every port of the range is in use, the random-port handler
\* never answers a port; it draws exactly maxAttempts times and answers the
\* exhaustion error.
C6_SaturatedRangeExhausts ==
    (Done("random") /\ ~RuntimeFailure /\ (RangeLow..RangeHigh) \subseteq BoundPorts(docker)) =>
        /\ req.res = [status |-> 500, error |-> "Could not find available port"]
        /\ req.attempts = maxAttempts /\ Len(req.draws) = maxAttempts

C6_Witness ==
    /\ Done("random") /\ (RangeLow..RangeHigh) \subseteq BoundPorts(docker)
    /\ req.res.status = 500 /\ req.res.error = "Could not find available port"
    /\ Len(req.draws) = maxAttempts

\* Whether a container of the runtime has at least one host-bound port.
HostBound(c) == BindingsOf(c) # {}

IsPrefix(p, s) == Len(p) <= Len(s) /\ SubSeq(s, 1, Len(p)) = p

Least(S) == CHOOSE x \in S : \A y \in S : x <= y

\* C7: in a GET /api/ports response a container of the snapshot appears in
\* containers exactly when it has a host-bound port, then exactly once, and
\* every returned container has a non-empty ports list.
C7_OnlyContainersWithBindings ==
    Answered("ports") =>
        LET returned == req.res.containers
        IN  /\ \A k \in 1..Len(returned) : Len(returned[k].ports) > 0
            /\ \A i \in 1..Len(docker) :
                  Cardinality({k \in 1..Len(returned) : IsPrefix(returned[k].id, docker[i].Id)})
                      = IF HostBound(docker[i]) THEN 1 ELSE 0
            /\ Len(returned) = Cardinality({i \in 1..Len(docker) : HostBound(docker[i])})

C7_Witness ==
    /\ Answered("ports")
    /\ Len(req.res.containers) = 1 /\ Len(docker) = 2
    /\ \E i \in 1..Len(docker) : ~HostBound(docker[i])

\* The name of a container without its leading separator.
Normalized(name) == IF name # <<>> /\ Head(name) = "/" THEN Tail(name) ELSE name

\* The entries of a container's table with a binding of host port p.
EntriesBinding(c, p) ==
    {e \in 1..Len(c.NetworkSettings.Ports.entries) :
        LET hostBindings == c.NetworkSettings.Ports.entries[e].hostBindings
        IN  /\ Truthy(hostBindings)
            /\ \E b \in Elements(hostBindings.list) : parseInt(b.HostPort) = p}

C9_UsedByIffUnavailable ==
    Answered("check") =>
        /\ Truthy(req.res.usedBy) <=> ~req.res.available
        /\ \A n \in IntParams : req.param = toString(n) => req.res.port = n

C9_Witness ==
    /\ Answered("check") /\ req.res.available /\ req.res.usedBy = Null
    /\ req.param = toString(MaxPort) /\ docker # <<>>

\* A text that is wholly a decimal integer.
WhollyDecimal(s) ==
    /\ s # <<>>
    /\ \A k \in 1..Len(s) : s[k] \in Elements(DecDigits)

\* C10: a check whose port parameter is not wholly a decimal integer is
\* answered with status 400 before any runtime call, never as the lookup of
\* some integer port.
C10_NonNumericRejected ==
    (req.kind = "check" /\ ~WhollyDecimal(req.param)) =>
        /\ req.pc = "done" /\ req.res.status = 400
        /\ req.listCalls = 0 /\ req.inspectCalls = 0

\* The request in flight is an inventory, check or random-port request.
Inventories == req.kind \in {"ports", "check", "random"}

\* The request in flight got through its loop: the list it holds is the
\* runtime's, and each container it visited was inspected once, in order.
InspectedInOrder ==
    /\ req.listCalls = 1
    /\ req.containers = listContainers(docker)
    /\ req.inspectCalls = Len(req.inspects)
    /\ \A k \in 1..Len(req.inspects) :
          req.inspects[k] = inspect(docker, req.containers[k].Id)

\* C11: a request whose listContainers or inspect call fails is answered
\* with status 500 and a body holding only an error text (a 200 answer is
\* given only when every call made succeeded), and nothing is retried:
\* listContainers is called at most once and inspect at most once per
\* listed container.
C11_FailureAnswers500WithoutRetry ==
    /\ req.listCalls <= 1
    /\ req.inspectCalls <= Len(req.containers)
    /\ req.inspectCalls - Len(req.inspects) \in {0, 1}
    /\ (Inventories /\ req.pc = "done" /\ req.res.status = 200) =>
          /\ InspectedInOrder
          /\ (req.kind = "check" /\ req.portInUse) \/ ~More(req)
    /\ (Inventories /\ req.pc = "done" /\ req.res.status # 200) =>
          DOMAIN req.res = {"status", "error"}
    /\ (req.pc = "done" /\ req.listCalls > 0) => req.res.status \in {200, 500}

C11_Witness ==
    /\ RuntimeFailure
    /\ \A i \in 1..Len(docker) : Truthy(docker[i].NetworkSettings)
    /\ Len(req.containers) = 2 /\ req.inspectCalls = 2 /\ Len(req.inspects) = 1
    /\ req.usedPorts # <<>>

\* The two error answers of GET /api/ports/random.
GenerationExhausted == [status |-> 500, error |-> "Could not find available port"]
RandomUnavailable == [status |-> 500, error |-> "Failed to get random port"]

\* C12: the random-port handler answers exhaustion with a body different
\* from the one it answers when a runtime call failed; the failure answer is
\* given exactly when the handler never got to draw, and the exhaustion
\* answer only after listContainers and the inspect of every listed
\* container succeeded.
C12_ExhaustionDistinctFromFailure ==
    Done("random") =>
        /\ GenerationExhausted # RandomUnavailable
        /\ req.res = RandomUnavailable <=> req.draws = <<>>
        /\ req.res = GenerationExhausted =>
              /\ InspectedInOrder /\ ~More(req)
              /\ Len(req.draws) = maxAttempts

C12_Witness ==
    /\ Done("random") /\ req.res = GenerationExhausted
    /\ Len(docker) = 2 /\ Len(req.inspects) = 2

\* An inspect result without a binding table: no network settings, or a
\* port map that is absent or null.
NoBindingTable(insp) ==
    ~Truthy(insp.NetworkSettings) \/ ~Truthy(insp.NetworkSettings.Ports)

\* A step in which the awaited inspect call resolves.
InspectResolves == GetPortsInspect \/ CheckInspect \/ RandomInspect

\* C13: when the inspect of a container resolves without a binding table,
\* each of the three handlers goes on as if the container had no bindings:
\* it does not answer with its failure, and the container adds no used
\* port, no containers element and no match.
C13_NoBindingTableIsZeroBindings ==
    [][(InspectResolves /\ NoBindingTable(inspect(docker, Current(req).Id))) =>
          /\ ~RuntimeFailure'
          /\ req'.inspects = Append(req.inspects, inspect(docker, Current(req).Id))
          /\ req'.usedPorts = req.usedPorts
          /\ req'.containerInfo = req.containerInfo
          /\ req'.portInUse = req.portInUse]_vars

\* C14: a binding whose HostPort does not parse as an integer is left out:
\* a GET /api/ports answer has no element of usedPorts and no ports entry
\* for it, the set the random-port handler searches has no element for it,
\* and the host ports that do parse are all reported.
C14_UnparseableHostPortOmitted ==
    /\ Answered("ports") =>
          /\ JSONNull \notin Elements(req.res.usedPorts)
          /\ \A c \in Elements(req.res.containers) :
                \A k \in 1..Len(c.ports) : c.ports[k].hostPort # JSONNull
          /\ BoundPorts(docker) \ {NaN} \subseteq Elements(req.res.usedPorts)
    /\ Done("random") => NaN \notin Elements(req.usedPorts)

\* The bindings of a GET /api/ports answer, by position: <<j, k>> is entry k
\* of the ports list of returned container j.
ReturnedBindings ==
    UNION {{<<j, k>> : k \in 1..Len(req.res.containers[j].ports)}
             : j \in 1..Len(req.res.containers)}

\* C15: in a GET /api/ports answer an entry of a container's port map whose
\* host bindings are null or an empty list has no ports element and adds no
\* used port; an entry with a list of n host bindings has exactly n ports
\* elements, all under the entry's container port.
C15_OnePortBindingPerHostBinding ==
    Answered("ports") =>
        /\ \A i \in 1..Len(docker) :
              Truthy(docker[i].NetworkSettings.Ports) =>
                \A e \in Elements(docker[i].NetworkSettings.Ports.entries) :
                    Cardinality({jk \in ReturnedBindings :
                        /\ IsPrefix(req.res.containers[jk[1]].id, docker[i].Id)
                        /\ req.res.containers[jk[1]].ports[jk[2]].containerPort
                              = e.containerPort})
                      = IF Truthy(e.hostBindings) THEN Len(e.hostBindings.list) ELSE 0
        /\ Elements(req.res.usedPorts) = {JSONNumber(p) : p \in BoundPorts(docker)}

C15_Witness ==
    /\ Answered("ports")
    /\ \E i \in 1..Len(docker) : docker[i] = Exposed
    /\ Len(req.res.containers) = 1
    /\ Len(req.res.containers[1].ports) = 2
    /\ Len(req.res.usedPorts) = 2

\* C16: in every GET /api/ports answer each hostPort of each returned
\* binding and each element of usedPorts is an integer from MinPort to
\* MaxPort.
C16_HostPortsInRange ==
    Answered("ports") =>
        /\ \A k \in 1..Len(req.res.usedPorts) :
              req.res.usedPorts[k] \in MinPort..MaxPort
        /\ \A jk \in ReturnedBindings :
              req.res.containers[jk[1]].ports[jk[2]].hostPort \in MinPort..MaxPort

\* What the request in flight has read equals runtime state rt: its list is
\* rt's list and each inspect result it got is rt's for that container.
SnapshotOf(rt) ==
    /\ req.containers = listContainers(rt)
    /\ \A k \in 1..Len(req.inspects) :
          /\ Exists(rt, req.containers[k].Id)
          /\ req.inspects[k] = inspect(rt, req.containers[k].Id)

\* C17: a request reads the container list once, and what a successful
\* answer is built from (the list and the inspect results) equals the
\* runtime's state at one instant between the request's arrival and its
\* answer, also when containers start, stop or restart while the handler
\* lists and inspects them.
C17_SingleSnapshot ==
    /\ req.listCalls <= 1
    /\ (Inventories /\ req.pc = "done" /\ req.res.status = 200) =>
          \E rt \in instants : SnapshotOf(rt)

\* C18: whatever a second request does meanwhile, the answer of a request
\* on an unchanged runtime is one the request gets when handled alone, and a
\* successful answer comes from the request's own listContainers call and
\* its own inspect calls, one per container it visited.
C18_RequestsShareNothing ==
    (Inventories /\ req.pc = "done") =>
        /\ req.res \in Ends(Arrived(req.kind, req.param), docker)
        /\ req.res.status = 200 => InspectedInOrder

C18_Witness ==
    /\ Answered("ports") /\ Len(req.res.containers) = 2
    /\ peer.kind = "random" /\ peer.pc = "inspect" /\ Len(peer.inspects) = 1

\* C19: no step of a handler changes the runtime, and the port a
\* random-port answer carries is not reserved: when the next random-port
\* request arrives on the same runtime, that port is still one of the
\* answers it can get.
C19_RuntimeUntouched ==
    [][/\ docker' = docker
       /\ (Answered("random") /\ RandomStart) =>
             [status |-> 200, port |-> req.res.port, available |-> TRUE]
                 \in Ends(req', docker')]_vars

C19_Witness ==
    /\ Answered("random") /\ req.res.port = RangeLow + 1
    /\ Len(req.draws) = 2 /\ Len(req.inspects) = 2
    /\ docker # <<>>

\* Text s contains text t.
Contains(s, t) ==
    \E i \in 0..Len(s) :
        /\ i + Len(t) <= Len(s)
        /\ \A j \in 1..Len(t) : s[i + j] = t[j]

\* Two characters are one letter in either case, or the same character.
SameLetter(a, b) ==
    \/ a = b
    \/ \E i \in 1..Len(UpperLetters) : {a, b} = {UpperLetters[i], LowerLetters[i]}

\* Text s contains text t when the case of letters is ignored.
ContainsIgnoringCase(s, t) ==
    \E i \in 0..Len(s) :
        /\ i + Len(t) <= Len(s)
        /\ \A j \in 1..Len(t) : SameLetter(s[i + j], t[j])

\* Sequence picked is the elements of xs at the positions kept, in the
\* order of xs.
IsSelection(picked, xs, kept) ==
    /\ Len(picked) = Cardinality(kept)
    /\ \A k \in kept : picked[Cardinality({i \in kept : i <= k})] = xs[k]

\* The positions of the used ports and of the containers the search term
\* selects.
MatchingPorts ==
    {k \in 1..Len(ui.portData.usedPorts) :
        /\ ui.portData.usedPorts[k] # JSONNull
        /\ Contains(toString(ui.portData.usedPorts[k]), ui.searchTerm)}
MatchingContainers ==
    {k \in 1..Len(ui.portData.containers) :
        LET container == ui.portData.containers[k]
        IN  \/ ContainsIgnoringCase(container.name, ui.searchTerm)
            \/ ContainsIgnoringCase(container.image, ui.searchTerm)
            \/ \E b \in 1..Len(container.ports) :
                  /\ container.ports[b].hostPort # JSONNull
                  /\ Contains(toString(container.ports[b].hostPort), ui.searchTerm)}

\* What the page shows is the exact selection of portData by the search term.
FilterExact ==
    /\ ui.view.tag = "rendered"
    /\ IsSelection(ui.view.filteredPorts, ui.portData.usedPorts, MatchingPorts)
    /\ IsSelection(ui.view.filteredContainers, ui.portData.containers,
                   MatchingContainers)
    /\ ui.searchTerm = <<>> =>
          /\ ui.view.filteredPorts = ui.portData.usedPorts
          /\ ui.view.filteredContainers = ui.portData.containers

\* C20: after every event of the page filteredContainers is exactly the
\* containers of portData whose name or image contains the search term,
\* letter case ignored, or that have a binding whose hostPort in decimal
\* contains it, and filteredPorts exactly the used ports whose decimal form
\* contains it, both in the order of portData; an empty term selects
\* everything, and typing a term leaves portData as it was.
C20_SearchFilterExact ==
    [][/\ FilterExact'
       /\ SetSearchTerm => ui'.portData = ui.portData]_vars

\* The random-port request in flight awaits the last call before its loop.
BeforeDraws ==
    /\ req.kind = "random" /\ Awaiting
    /\ IF req.pc = "list" THEN docker = <<>>
       ELSE /\ Len(req.inspects) + 1 = Len(req.containers)
            /\ Exists(docker, Current(req).Id)
            /\ ~Throws(inspect(docker, Current(req).Id))

\* C21: the random-port loop ends in every execution: from the state before
\* it the handler can only go to an answer, after at least one and at most
\* maxAttempts draws, each counted once, and the answer is a port or the
\* exhaustion error.
C21_RandomLoopTerminates ==
    /\ req.kind = "random" =>
          /\ Len(req.draws) <= maxAttempts
          /\ req.attempts = Len(req.draws)
          /\ req.draws # <<>> => req.pc = "done"
    /\ BeforeDraws =>
          /\ Resolved(req, docker) # {}
          /\ \A s \in Resolved(req, docker) :
                /\ s.pc = "done"
                /\ Len(s.draws) \in 1..maxAttempts
                /\ \/ s.res = GenerationExhausted
                   \/ s.res = [status |-> 200, port |-> s.draws[Len(s.draws)],
                               available |-> TRUE]

C21_Witness ==
    /\ Done("random") /\ req.res = GenerationExhausted
    /\ Len(req.draws) = maxAttempts /\ req.draws[1] # req.draws[2]
    /\ ~((RangeLow..RangeHigh) \subseteq BoundPorts(docker))

\* The position in the runtime's enumeration of returned container j.
EnumeratedAt(j) ==
    CHOOSE i \in 1..Len(docker) : IsPrefix(req.res.containers[j].id, docker[i].Id)

\* The host bindings of the port map of container c, as <<entry, binding>>
\* positions.
TablePositions(c) ==
    UNION {IF Truthy(c.NetworkSettings.Ports.entries[e].hostBindings)
           THEN {<<e, b>> : b \in 1..Len(c.NetworkSettings.Ports.entries[e].hostBindings.list)}
           ELSE {} : e \in 1..Len(c.NetworkSettings.Ports.entries)}

\* How many host bindings of the table come at or before position eb.
TableRank(c, eb) ==
    Cardinality({x \in TablePositions(c) :
                    x[1] < eb[1] \/ (x[1] = eb[1] /\ x[2] <= eb[2])})

\* C22: in a GET /api/ports answer the containers come in the order the
\* runtime enumerated them, and the ports of each container come in the
\* order of its port map: entry by entry, and within an entry binding by
\* binding.
C22_OutputKeepsRuntimeOrder ==
    Answered("ports") =>
        /\ \A j1, j2 \in 1..Len(req.res.containers) :
              j1 < j2 => EnumeratedAt(j1) < EnumeratedAt(j2)
        /\ \A j \in 1..Len(req.res.containers) :
              LET c == docker[EnumeratedAt(j)]
                  ports == req.res.containers[j].ports
              IN  /\ Len(ports) = Cardinality(TablePositions(c))
                  /\ \A eb \in TablePositions(c) :
                        LET entry == c.NetworkSettings.Ports.entries[eb[1]]
                            port == ports[TableRank(c, eb)]
                        IN  /\ port.containerPort = entry.containerPort
                            /\ port.hostPort =
                                 JSONNumber(parseInt(entry.hostBindings.list[eb[2]].HostPort))
                            /\ port.hostIp \in {entry.hostBindings.list[eb[2]].HostIp, "0.0.0.0"}

C22_Witness ==
    /\ Answered("ports") /\ Len(req.res.containers) = 2
    /\ Len(req.res.containers[1].ports) = 3
    /\ req.res.containers[1].ports[1].containerPort = "5432/tcp"
    /\ Len(req.res.containers[2].ports) = 2
    /\ req.res.containers[2].ports[1].hostPort = 3001

\* C23: the name a container is reported under is the runtime's first name
\* without its leading "/" when it starts with one and that name unchanged
\* otherwise, in containers[].name of GET /api/ports and in
\* usedBy.container of the check alike.
C23_OnlyLeadingSeparatorRemoved ==
    /\ Answered("ports") =>
          \A j \in 1..Len(req.res.containers) :
              req.res.containers[j].name
                  = Normalized(docker[EnumeratedAt(j)].Names[1])
    /\ (Answered("check") /\ ~req.res.available) =>
          req.res.usedBy.container
              = Normalized(docker[Least(Binders(docker, req.res.port))].Names[1])

\* C24: the ports the random-port handler can answer are exactly the ports
\* of the range that no binding of the runtime uses: from the state before
\* its loop each of them is the port of one of the answers it can go to,
\* and no answer carries any other port.
C24_EveryFreePortReachable ==
    BeforeDraws =>
        {s.res.port : s \in {t \in Resolved(req, docker) : t.res.status = 200}}
            = (RangeLow..RangeHigh) \ BoundPorts(docker)

C24_Witness ==
    /\ Answered("random") /\ req.res.port = RangeHigh
    /\ Len(req.draws) = 2 /\ req.draws[1] = RangeLow
    /\ Cardinality((RangeLow..RangeHigh) \ BoundPorts(docker)) = 1

\* C25: on one runtime the used ports the random-port handler collects are
\* the values of usedPorts in the answers of GET /api/ports, and the check
\* of a port the random-port handler has answered answers available = true.
\* The sets are compared when the handler ends at its first draw: the set is
\* complete before the do-while loop, whose draws only read it.
C25_ScansAgree ==
    /\ (Done("random") /\ ~RuntimeFailure /\ Len(req.draws) = 1) =>
          /\ GetPortsUsedPorts(docker) # {}
          /\ \A usedPorts \in GetPortsUsedPorts(docker) :
                Elements(usedPorts) = {JSONNumber(p) : p \in Elements(req.usedPorts)}
    /\ Answered("random") =>
          \A res \in Ends(Arrived("check", toString(req.res.port)), docker) :
              res.status = 200 => res.available

C25_Witness ==
    /\ Answered("random") /\ Len(req.usedPorts) = 3 /\ Len(req.inspects) = 2
    /\ \E res \in Ends(Arrived("check", toString(req.res.port)), docker) :
          res.status = 200 /\ res.available

\* C26: checkPort sends no request when the trimmed search term is empty
\* or does not parse to a number in [1, 65535]: on an empty term it changes
\* nothing; on an invalid number it sets portCheck to available = false with
\* usedBy.container = 'Invalid' and leaves checkingPort, error and the
\* requests in flight as they are; a request is sent exactly for a port in
\* [1, 65535], and it is the request for that port.
C26_CheckPortValidates ==
    LET term == trim(ui.searchTerm)
        portNumber == parseInt(term)
        valid == term # <<>> /\ portNumber \in MinPort..MaxPort
        after == checkPort(ui)
    IN  /\ term = <<>> => after = ui
        /\ valid <=> after.checks # ui.checks
        /\ valid => after.checks = Append(ui.checks, toString(portNumber))
        /\ (term # <<>> /\ ~valid) =>
              /\ after.portCheck.available = FALSE
              /\ after.portCheck.usedBy.container = "Invalid"
              /\ after = [ui EXCEPT !.portCheck = after.portCheck]
        /\ \A k \in 1..Len(ui.checks) :
              parseInt(ui.checks[k]) \in MinPort..MaxPort

C26_Witness ==
    /\ ui.searchTerm = <<" ">> /\ checkPort(ui) = ui
    /\ ui.portCheck = InvalidResult(0)
    /\ ui.checks = <<<<"8", "0">>>>

\* C27: at most one fetchPortData request is in flight, and loading is true
\* whenever one is in flight, whatever the initial load, Refresh, Retry and
\* the failures of checkPort and generateRandomPort interleave to.
C27_LoadingTracksFetch ==
    /\ ui.fetches <= 1
    /\ ui.fetches > 0 => ui.loading

\* C28: every request of the page releases its busy flag: the step in which
\* a fetchPortData, checkPort or generateRandomPort request settles (an
\* answer of any status, or a failure) leaves loading, checkingPort or
\* generatingPort false, and a flag is set only while a request of its
\* kind is pending, so that no button stays disabled once the requests
\* have settled.
C28_BusyFlagsReleased ==
    [][/\ ui'.fetches < ui.fetches => ~ui'.loading
       /\ Len(ui'.checks) < Len(ui.checks) => ~ui'.checkingPort
       /\ ui'.generates < ui.generates => ~ui'.generatingPort
       /\ ui'.loading => ui'.fetches > 0
       /\ ui'.checkingPort => ui'.checks # <<>>
       /\ ui'.generatingPort => ui'.generates > 0]_vars

C28_Witness ==
    /\ ~ui.loading /\ ~ui.checkingPort /\ ~ui.generatingPort
    /\ ui.fetches = 0 /\ ui.checks = <<>> /\ ui.generates = 0
    /\ ui.error = ErrorText("Failed to check port")
    /\ ui.portCheck # Null /\ ui.portData.containers # <<>>

\* The fields of the page state other than fields are left as they are.
OnlyChanged(fields) == \A f \in (DOMAIN ui) \ fields : ui'[f] = ui[f]

\* C29: a request that fails changes only the error message and its own
\* busy flag (a failed checkPort leaves portCheck, a failed
\* generateRandomPort leaves randomPort and a failed fetchPortData leaves
\* portData as they are); a request that succeeds changes only its result
\* and its own busy flag, so it never clears the error message, which only
\* the start of a fetchPortData clears.
C29_FailureChangesOnlyError ==
    [][/\ Len(ui'.checks) < Len(ui.checks) =>
             IF ui'.error # ui.error \/ CheckPortRejects
             THEN OnlyChanged({"error", "checkingPort", "checks"})
             ELSE OnlyChanged({"portCheck", "checkingPort", "checks"})
       /\ ui'.generates < ui.generates =>
             IF ui'.error # ui.error \/ GenerateRandomPortRejects
             THEN OnlyChanged({"error", "generatingPort", "generates"})
             ELSE OnlyChanged({"randomPort", "generatingPort", "generates"})
       /\ ui'.fetches < ui.fetches =>
             IF ui'.error # ui.error \/ FetchPortDataRejects
             THEN OnlyChanged({"error", "loading", "fetches"})
             ELSE OnlyChanged({"portData", "view", "loading", "fetches"})
       /\ (ui.error # Null /\ ui'.error = Null) => ui'.fetches > ui.fetches]_vars

C29_Witness ==
    /\ ui.error = ErrorText("Failed to generate random port")
    /\ ui.portCheck # Null /\ ui.portCheck.available
    /\ ui.portData.containers # <<>>
    /\ ui.fetches = 0 /\ ui.checks = <<>> /\ ui.generates = 0

====
